---- MODULE Spec2Model ----
(***************************************************************************)
(* The GPU compute-dispatch pipeline of demo_wgpu_inverse_sqrt:            *)
(* compute (src/src/main.rs) encodes the caller's floats, run_compute_     *)
(* shader uploads them, records bind -> dispatch -> copy, submits, maps    *)
(* the readback buffer and decodes it; main_cs (src/inverse_sqrt/src/      *)
(* lib.rs) is the kernel run once per invocation.                          *)
(*                                                                         *)
(* An f32 is the record of its three bit fields; a byte is 0..255.         *)
(***************************************************************************)
EXTENDS Integers, Sequences, FiniteSets, TLC

\* ------------------------------------------------------------------ f32

F32(s, e, m) == [sign |-> s, exp |-> e, man |-> m]

\* f32::NAN, the quiet NaN 0x7fc00000 the kernel stores in its zero branch.
NAN == F32(0, 255, 2^22)

PosInf == F32(0, 255, 0)

IsNaN(x) == x.exp = 255 /\ x.man # 0

IsInf(x) == x.exp = 255 /\ x.man = 0

\* `x == 0.`: IEEE equality with zero holds of +0.0 and of -0.0 and of nothing else.
IsZero(x) == x.exp = 0 /\ x.man = 0

\* `x > 0.` as the tests' inputs are: not NaN, not a zero, sign bit clear.
IsPositive(x) == x.sign = 0 /\ ~IsNaN(x) /\ ~IsZero(x)

\* An arithmetic NaN: Rust leaves the sign of a computed NaN unspecified.
ArithNaNs == {F32(0, 255, 2^22), F32(1, 255, 2^22)}

\* The significand M and exponent E of a positive finite x = M * 2^E with
\* 2^23 <= M < 2^24 (a subnormal is shifted up).
RECURSIVE NormShift(_, _)
NormShift(m, e) == IF m >= 2^23 THEN <<m, e>> ELSE NormShift(2 * m, e - 1)

Normalize(x) ==
    IF x.exp > 0 THEN <<2^23 + x.man, x.exp - 150>> ELSE NormShift(x.man, -149)

\* floor(sqrt(N)) and N - floor(sqrt(N))^2 for the 48-bit N = H * 4^11, two
\* radicand bits per step, most significant first (i counts the steps left).
RECURSIVE SqrtIter(_, _, _, _)
SqrtIter(H, i, root, rem) ==
    IF i = 0 THEN <<root, rem>>
    ELSE LET pair == IF i >= 12 THEN (H \div 4^(i - 12)) % 4 ELSE 0
             r4 == 4 * rem + pair
             trial == 4 * root + 1
             step == IF r4 >= trial THEN <<2 * root + 1, r4 - trial>>
                     ELSE <<2 * root, r4>>
         IN CHOOSE r \in {SqrtIter(h, j, s[1], s[2]) : h \in {H}, j \in {i - 1}, s \in {step}} : TRUE

\* f32::sqrt, correctly rounded (round to nearest, ties to even): the set of
\* values the result may be (one value unless the result is a NaN).
f32_sqrt(x) ==
    IF IsNaN(x) THEN ArithNaNs
    ELSE IF IsZero(x) THEN {x}
    ELSE IF x.sign = 1 THEN ArithNaNs
    ELSE IF IsInf(x) THEN {x}
    ELSE UNION {
         LET M == n[1]
             E == n[2]
             t == IF (E + 201) % 2 = 0 THEN 23 ELSE 24
             Er == (E - t) \div 2
         IN {LET root == rr[1]
                 up == rr[2] > root
                 R == IF up THEN root + 1 ELSE root
             IN IF R = 2^24 THEN F32(0, Er + 151, 0)
                ELSE F32(0, Er + 150, R - 2^23) :
             rr \in {SqrtIter(M * 2^(t - 22), 24, 0, 0)}} :
         n \in {Normalize(x)}}

\* floor(2^k / R) and 2^k mod R by long division (k quotient bits).
RECURSIVE DivIter(_, _, _, _)
DivIter(R, k, q, rem) ==
    IF k = 0 THEN <<q, rem>>
    ELSE LET step == IF 2 * rem >= R THEN <<2 * q + 1, 2 * rem - R>>
                     ELSE <<2 * q, 2 * rem>>
         IN CHOOSE r \in {DivIter(d, j, s[1], s[2]) : d \in {R}, j \in {k - 1}, s \in {step}} : TRUE

\* `1. / y` in f32, correctly rounded (round to nearest, ties to even).
f32_recip(y) ==
    IF IsNaN(y) THEN ArithNaNs
    ELSE IF IsZero(y) THEN {F32(y.sign, 255, 0)}
    ELSE IF IsInf(y) THEN {F32(y.sign, 0, 0)}
    ELSE UNION {
         LET M == n[1]
             E == n[2]
             full == IF M = 2^23 THEN 46 ELSE 47
             \* a quotient below 2^-126 keeps only the bits above 2^-149
             k == IF 149 - E < full THEN 149 - E ELSE full
             e == 150 - E - k
         IN {LET q == qr[1]
                 twice == 2 * qr[2]
                 up == IF k < 0 THEN FALSE
                       ELSE twice > M \/ (twice = M /\ q % 2 = 1)
                 Q == IF up THEN q + 1 ELSE q
             IN IF k < full
                THEN F32(y.sign, Q \div 2^23, Q % 2^23)
                ELSE IF Q = 2^24
                     THEN (IF e + 1 >= 255 THEN F32(y.sign, 255, 0)
                           ELSE F32(y.sign, e + 1, 0))
                     ELSE (IF e >= 255 THEN F32(y.sign, 255, 0)
                           ELSE F32(y.sign, e, Q - 2^23)) :
             qr \in {IF k < 0 THEN <<0, 1>> ELSE DivIter(M, k, 0, 1)}} :
         n \in {Normalize(y)}}

\* ------------------------------------------------------------- the kernel

\* The kernel without the division: the zero branch, or else sqrt alone.
main_cs_value_sqrt_only(x) ==
    IF IsZero(x) THEN [branch |-> "zero", stores |-> {NAN}]
    ELSE [branch |-> "else", stores |-> f32_sqrt(x)]

\* The kernel without its zero branch: 1/sqrt of whatever it loads.
main_cs_value_unguarded(x) ==
    [branch |-> "else", stores |-> UNION {f32_recip(r) : r \in f32_sqrt(x)}]

\* main_cs's body on the value it loads: the branch it takes and the values
\* it may store.
main_cs_value(x) ==
    IF IsZero(x) THEN [branch |-> "zero", stores |-> {NAN}]
    ELSE [branch |-> "else",
          stores |-> UNION {f32_recip(r) : r \in f32_sqrt(x)}]

\* The index wrapped into the slice instead of checked against its length.
main_cs_wrapping(id_x, storage) ==
    IF Len(storage) = 0
    THEN {[panicked |-> TRUE, storage |-> storage, branch |-> "none", accessed |-> {}]}
    ELSE LET index == id_x % Len(storage)
             v == main_cs_value(storage[index + 1])
         IN {[panicked |-> FALSE,
              storage |-> [storage EXCEPT ![index + 1] = s],
              branch |-> v.branch,
              accessed |-> {index}] : s \in v.stores}

\* main_cs for the invocation with global id.x = id_x over the bound slice
\* `storage: &mut [f32]` (element index i is storage[i + 1] here). Indexing a
\* slice is bounds-checked: an index at or past the length panics before any
\* load or store. The result is the set of outcomes, each with the slice as
\* the invocation leaves it and the element indices it loaded or stored.
main_cs(id_x, storage) ==
    LET index == id_x
    IN IF index >= Len(storage)
       THEN {[panicked |-> TRUE, storage |-> storage, branch |-> "none",
              accessed |-> {}]}
       ELSE UNION {{[panicked |-> FALSE,
                     storage |-> [storage EXCEPT ![index + 1] = s],
                     branch |-> v.branch,
                     accessed |-> {index}] : s \in v.stores} :
                   v \in {main_cs_value(storage[index + 1])}}

\* #[spirv(compute(threads(64)))]: invocations per workgroup, along X.
WORKGROUP_SIZE == 64

\* ------------------------------------------------------- host encoding

\* The four bytes of x, most significant first.
BitsBE(x) ==
    << x.sign * 128 + x.exp \div 2,
       (x.exp % 2) * 128 + x.man \div 65536,
       (x.man \div 256) % 256,
       x.man % 256 >>

Reverse4(b) == <<b[4], b[3], b[2], b[1]>>

\* The bytes most significant first whatever the target (f32::to_be_bytes).
to_be_bytes(x, endian) == BitsBE(x)

\* f32::to_ne_bytes on a target of the given byte order.
to_ne_bytes(x, endian) ==
    IF endian = "big" THEN BitsBE(x) ELSE Reverse4(BitsBE(x))

\* f32::from_ne_bytes on a target of the given byte order.
from_ne_bytes(b, endian) ==
    LET be == IF endian = "big" THEN b ELSE Reverse4(b)
    IN F32(be[1] \div 128,
           (be[1] % 128) * 2 + be[2] \div 128,
           (be[2] % 128) * 65536 + be[3] * 256 + be[4])

\* input.into_iter().cloned().flat_map(f32::to_ne_bytes).collect()
RECURSIVE flat_map_to_ne_bytes(_, _)
flat_map_to_ne_bytes(xs, endian) ==
    IF xs = <<>> THEN <<>>
    ELSE to_ne_bytes(Head(xs), endian) \o flat_map_to_ne_bytes(Tail(xs), endian)

\* chunks_exact(4).map(from_ne_bytes).collect(): a trailing chunk shorter
\* than 4 bytes is dropped.
chunks_exact_decode(bytes, endian) ==
    [i \in 1..(Len(bytes) \div 4) |->
        from_ne_bytes(SubSeq(bytes, 4 * i - 3, 4 * i), endian)]

\* The f32 slice a bound storage buffer is to the kernel, and back.
SliceOf(bytes, endian) == chunks_exact_decode(bytes, endian)

BytesOf(slice, endian) == flat_map_to_ne_bytes(slice, endian)

\* `n as u32`
as_u32(n) ==
    IF n \div 2^16 < 2^16 THEN n
    ELSE n - ((n \div 2^16) \div 2^16) * 2^16 * 2^16

\* ----------------------------------------------------------------- bounds

\* Longest caller input drawn from SmallFloats.
MaxLen == 2

\* 0.0 and 25.0: the elements of the longer inputs.
SmallFloats == {F32(0, 0, 0), F32(0, 131, 4718592)}

\* The elements of the one-element inputs: both signs, zeros and subnormals
\* (exp 0), the smallest normal, 2^-41, values around 1, the tests' 4, 9, 25
\* and 100, large values, infinities and NaNs (exp 255).
WideExps == {0, 1, 86, 107, 126, 127, 129, 130, 131, 133, 141, 254, 255}

WideMans == {0, 1, 1048576, 4194304, 4718592, 8388607}

WideFloats == {F32(s, e, m) : s \in {0, 1}, e \in WideExps, m \in WideMans}

RECURSIVE SeqsOf(_, _)
SeqsOf(S, n) ==
    IF n = 0 THEN {<<>>}
    ELSE LET shorter == SeqsOf(S, n - 1)
         IN shorter \cup {Append(q, x) : q \in {r \in shorter : Len(r) = n - 1}, x \in S}

\* The caller's inputs the model runs compute on.
Inputs == SeqsOf(SmallFloats, MaxLen) \cup {<<x>> : x \in WideFloats}

\* ------------------------------------------------------------------ state

VARIABLES
    input,          \* compute's `input: &[f32]`, owned by the caller
    target_endian,  \* the target's byte order ("little" or "big"), host and device alike
    pc,             \* the statement of compute / run_compute_shader the host is at
    src,            \* compute's `src: Vec<u8>`
    buffers,        \* contents of readback_buffer and storage_buffer
    bind_group,     \* the resources of bind_group, by binding
    encoder,        \* the commands recorded so far
    queue,          \* submitted commands the device has not completed
    submissions,    \* calls of queue.submit
    gpu_pass,       \* the device's compute-pass state: bind group 0 and pipeline
    ran,            \* global ids (in the slice's range) whose invocation has run
    oob_ran,        \* invocations run whose id.x is at or past the slice's length
    branch,         \* per element: the branch of main_cs the invocation took
    writes,         \* per element: stores made by invocations
    dispatches,     \* dispatch commands the device has completed
    copies,         \* copy commands the device has completed
    map_state,      \* readback_buffer: unmapped, map-requested, mapped, failed, consumed
    map_requests,   \* calls of map_async
    mapped_reads,   \* calls of get_mapped_range
    result          \* what compute returned, or how it ended

vars == << input, target_endian, pc, src, buffers, bind_group, encoder, queue,
           submissions, gpu_pass, ran, oob_ran, branch, writes, dispatches,
           copies, map_state, map_requests, mapped_reads, result >>

hostVars == << src, bind_group, encoder, submissions, map_requests, mapped_reads, result >>

gpuVars == << gpu_pass, ran, oob_ran, branch, writes, dispatches, copies >>

NoResult == [kind |-> "none"]

Init ==
    /\ input \in Inputs
    /\ target_endian \in {"little", "big"}
    /\ pc = "compute"
    /\ src = <<>>
    /\ buffers = [readback_buffer |-> <<>>, storage_buffer |-> <<>>]
    /\ bind_group = <<>>
    /\ encoder = <<>>
    /\ queue = <<>>
    /\ submissions = 0
    /\ gpu_pass = [open |-> FALSE, bind_group |-> <<>>, pipeline |-> "none"]
    /\ ran = {}
    /\ oob_ran = 0
    /\ branch = [i \in 0..(Len(input) - 1) |-> "none"]
    /\ writes = [i \in 0..(Len(input) - 1) |-> 0]
    /\ dispatches = 0
    /\ copies = 0
    /\ map_state = "unmapped"
    /\ map_requests = 0
    /\ mapped_reads = 0
    /\ result = NoResult

\* ------------------------------------------------------- the host program

\* The copy recorded ahead of the compute pass.
Program_copy_first ==
    << "compute", "request_adapter", "request_device", "create_pipeline",
       "create_readback_buffer", "create_storage_buffer", "create_bind_group",
       "create_command_encoder", "copy_buffer_to_buffer", "begin_compute_pass",
       "set_bind_group", "set_pipeline", "dispatch", "end_compute_pass",
       "submit", "map_async", "poll", "await" >>

\* The map requested ahead of the submission.
Program_map_first ==
    << "compute", "request_adapter", "request_device", "create_pipeline",
       "create_readback_buffer", "create_storage_buffer", "create_bind_group",
       "create_command_encoder", "begin_compute_pass", "set_bind_group",
       "set_pipeline", "dispatch", "end_compute_pass", "copy_buffer_to_buffer",
       "map_async", "submit", "poll", "await" >>

\* The copy recorded after the submission.
Program_copy_late ==
    << "compute", "request_adapter", "request_device", "create_pipeline",
       "create_readback_buffer", "create_storage_buffer", "create_bind_group",
       "create_command_encoder", "begin_compute_pass", "set_bind_group",
       "set_pipeline", "dispatch", "end_compute_pass", "submit",
       "copy_buffer_to_buffer", "map_async", "poll", "await" >>

\* The statements of compute and of run_compute_shader, in source order.
Program ==
    << "compute", "request_adapter", "request_device", "create_pipeline",
       "create_readback_buffer", "create_storage_buffer", "create_bind_group",
       "create_command_encoder", "begin_compute_pass", "set_bind_group",
       "set_pipeline", "dispatch", "end_compute_pass", "copy_buffer_to_buffer",
       "submit", "map_async", "poll", "await" >>

\* The statement after statement l ("done" after the last).
NextPc(l) ==
    LET i == CHOOSE k \in 1..Len(Program) : Program[k] = l
    IN IF i = Len(Program) THEN "done" ELSE Program[i + 1]

At(l) == pc = l /\ pc' = NextPc(l)

\* The host has executed statement l.
Past(l) ==
    IF pc = "done" THEN result.kind # "panic"
    ELSE \E i, j \in 1..Len(Program) : Program[i] = l /\ Program[j] = pc /\ i < j

Panic(msg) == pc' = "done" /\ result' = [kind |-> "panic", msg |-> msg]

\* compute: the caller's floats are cloned into a byte vector.
Compute ==
    /\ At("compute")
    /\ src' = flat_map_to_ne_bytes(input, target_endian)
    /\ UNCHANGED << input, target_endian, buffers, bind_group, encoder, queue,
                    submissions, map_state, map_requests, mapped_reads, result >>
    /\ UNCHANGED gpuVars

\* init_device: request_adapter(..).await.expect(..) panics when the platform
\* has no adapter.
RequestAdapter ==
    /\ pc = "request_adapter"
    /\ \E adapter \in {"Some", "None"} :
          IF adapter = "Some"
          THEN pc' = NextPc("request_adapter") /\ result' = result
          ELSE Panic("Failed to find an appropriate adapter")
    /\ UNCHANGED << input, target_endian, src, buffers, bind_group, encoder, queue,
                    submissions, map_state, map_requests, mapped_reads >>
    /\ UNCHANGED gpuVars

\* init_device returns request_device's Result; run_compute_shader unwraps it
\* with expect, which panics on Err(RequestDeviceError).
RequestDevice ==
    /\ pc = "request_device"
    /\ \E device \in {"Ok", "Err"} :
          IF device = "Ok"
          THEN pc' = NextPc("request_device") /\ result' = result
          ELSE Panic("Failed to create device")
    /\ UNCHANGED << input, target_endian, src, buffers, bind_group, encoder, queue,
                    submissions, map_state, map_requests, mapped_reads >>
    /\ UNCHANGED gpuVars

\* The shader module, the bind group layout (binding 0, a read-write storage
\* buffer), the pipeline layout and the pipeline with entry point main_cs.
CreatePipeline ==
    /\ At("create_pipeline")
    /\ UNCHANGED << input, target_endian, buffers, queue, map_state >>
    /\ UNCHANGED hostVars
    /\ UNCHANGED gpuVars

\* The readback buffer sized by the number of floats, not of bytes.
CreateReadbackBuffer_by_elements ==
    /\ At("create_readback_buffer")
    /\ buffers' = [buffers EXCEPT !.readback_buffer = [i \in 1..(Len(src) \div 4) |-> 0]]
    /\ UNCHANGED << input, target_endian, queue, map_state >>
    /\ UNCHANGED hostVars
    /\ UNCHANGED gpuVars

\* readback_buffer: input.len() bytes, MAP_READ | COPY_DST, not mapped. No
\* contents are given; the host reads none before the copy, and the buffer is
\* taken to hold zero bytes until then.
CreateReadbackBuffer ==
    /\ At("create_readback_buffer")
    /\ buffers' = [buffers EXCEPT !.readback_buffer = [i \in 1..Len(src) |-> 0]]
    /\ UNCHANGED << input, target_endian, queue, map_state >>
    /\ UNCHANGED hostVars
    /\ UNCHANGED gpuVars

\* storage_buffer: created holding the input bytes.
CreateStorageBuffer ==
    /\ At("create_storage_buffer")
    /\ buffers' = [buffers EXCEPT !.storage_buffer = src]
    /\ UNCHANGED << input, target_endian, queue, map_state >>
    /\ UNCHANGED hostVars
    /\ UNCHANGED gpuVars

\* Binding 0 given the readback buffer.
CreateBindGroup_readback ==
    /\ At("create_bind_group")
    /\ bind_group' = << [binding |-> 0, resource |-> "readback_buffer"] >>
    /\ UNCHANGED << input, target_endian, src, buffers, encoder, queue, submissions,
                    map_state, map_requests, mapped_reads, result >>
    /\ UNCHANGED gpuVars

\* bind_group: binding 0 is the whole of storage_buffer.
CreateBindGroup ==
    /\ At("create_bind_group")
    /\ bind_group' = << [binding |-> 0, resource |-> "storage_buffer"] >>
    /\ UNCHANGED << input, target_endian, src, buffers, encoder, queue, submissions,
                    map_state, map_requests, mapped_reads, result >>
    /\ UNCHANGED gpuVars

CreateCommandEncoder ==
    /\ At("create_command_encoder")
    /\ encoder' = <<>>
    /\ UNCHANGED << input, target_endian, src, buffers, bind_group, queue, submissions,
                    map_state, map_requests, mapped_reads, result >>
    /\ UNCHANGED gpuVars

\* A statement that records one command.
Record(l, cmd) ==
    /\ At(l)
    /\ encoder' = Append(encoder, cmd)
    /\ UNCHANGED << input, target_endian, src, buffers, bind_group, queue, submissions,
                    map_state, map_requests, mapped_reads, result >>
    /\ UNCHANGED gpuVars

BeginComputePass == Record("begin_compute_pass", [op |-> "begin_compute_pass"])

SetBindGroup ==
    Record("set_bind_group",
           [op |-> "set_bind_group", index |-> 0, bind_group |-> bind_group])

SetPipeline ==
    Record("set_pipeline", [op |-> "set_pipeline", entry_point |-> "main_cs"])

\* Whole workgroups only: the element count divided by the workgroup size,
\* rounded down.
dispatch_x_floor(len) == (as_u32(len) \div 4) \div WORKGROUP_SIZE

\* The X workgroup count of `cpass.dispatch(input.len() as u32 / 4, 1, 1)`,
\* input being the byte slice.
dispatch_x(len) == as_u32(len) \div 4

Dispatch ==
    Record("dispatch", [op |-> "dispatch", x |-> dispatch_x(Len(src)), y |-> 1, z |-> 1])

\* cpass is dropped at the end of its block.
EndComputePass == Record("end_compute_pass", [op |-> "end_compute_pass"])

CopyBufferToBuffer ==
    Record("copy_buffer_to_buffer",
           [op |-> "copy_buffer_to_buffer",
            source |-> "storage_buffer", source_offset |-> 0,
            destination |-> "readback_buffer", destination_offset |-> 0,
            copy_size |-> Len(src)])

\* queue.submit(Some(encoder.finish())): the encoder is consumed.
Submit ==
    /\ At("submit")
    /\ queue' = queue \o encoder
    /\ encoder' = <<>>
    /\ submissions' = submissions + 1
    /\ UNCHANGED << input, target_endian, src, buffers, bind_group,
                    map_state, map_requests, mapped_reads, result >>
    /\ UNCHANGED gpuVars

\* readback_buffer.slice(..).map_async(MapMode::Read)
MapAsync ==
    /\ At("map_async")
    /\ map_state' = "map-requested"
    /\ map_requests' = map_requests + 1
    /\ UNCHANGED << input, target_endian, src, buffers, bind_group, encoder, queue,
                    submissions, mapped_reads, result >>
    /\ UNCHANGED gpuVars

\* The poll that does not wait (Maintain::Poll).
Poll_no_wait ==
    /\ At("poll")
    /\ UNCHANGED << input, target_endian, buffers, queue, map_state >>
    /\ UNCHANGED hostVars
    /\ UNCHANGED gpuVars

\* device.poll(Maintain::Wait) returns once the submitted work has completed
\* and the callbacks of the maps that waited for it have run.
Poll ==
    /\ At("poll")
    /\ queue = <<>>
    /\ map_state # "map-requested"
    /\ UNCHANGED << input, target_endian, buffers, queue, map_state >>
    /\ UNCHANGED hostVars
    /\ UNCHANGED gpuVars

\* The mapped range read and decoded whatever the map reported.
Await_unchecked ==
    /\ At("await")
    /\ map_state \in {"mapped", "failed"}
    /\ mapped_reads' = mapped_reads + 1
    /\ result' = [kind |-> "ok",
                  value |-> chunks_exact_decode(buffers.readback_buffer, target_endian)]
    /\ map_state' = IF map_state = "mapped" THEN "consumed" ELSE map_state
    /\ UNCHANGED << input, target_endian, src, buffers, bind_group, encoder, queue,
                    submissions, map_requests >>
    /\ UNCHANGED gpuVars

\* The decoded floats written back over the caller's slice as well.
Await_in_place ==
    /\ At("await")
    /\ map_state \in {"mapped", "failed"}
    /\ IF map_state = "mapped"
       THEN /\ mapped_reads' = mapped_reads + 1
            /\ result' = [kind |-> "ok",
                          value |-> chunks_exact_decode(buffers.readback_buffer,
                                                        target_endian)]
            /\ input' = chunks_exact_decode(buffers.readback_buffer, target_endian)
            /\ map_state' = "consumed"
       ELSE /\ result' = [kind |-> "err", error |-> "BufferAsyncError"]
            /\ UNCHANGED << input, mapped_reads, map_state >>
    /\ UNCHANGED << target_endian, src, buffers, bind_group, encoder, queue,
                    submissions, map_requests >>
    /\ UNCHANGED gpuVars

\* buffer_future.await.map(|_| get_mapped_range().chunks_exact(4)...collect()):
\* the closure runs on Ok only; Err(BufferAsyncError) is returned as it is.
Await ==
    /\ At("await")
    /\ map_state \in {"mapped", "failed"}
    /\ IF map_state = "mapped"
       THEN /\ mapped_reads' = mapped_reads + 1
            /\ result' = [kind |-> "ok",
                          value |-> chunks_exact_decode(buffers.readback_buffer,
                                                        target_endian)]
            /\ map_state' = "consumed"
       ELSE /\ result' = [kind |-> "err", error |-> "BufferAsyncError"]
            /\ UNCHANGED << mapped_reads, map_state >>
    /\ UNCHANGED << input, target_endian, src, buffers, bind_group, encoder, queue,
                    submissions, map_requests >>
    /\ UNCHANGED gpuVars

\* ------------------------------------------------------------- the device

\* The device completes the submitted commands in submission order; the
\* invocations of one dispatch run in any order.
HeadIs(op) == queue # <<>> /\ Head(queue).op = op

hostFrame == UNCHANGED << input, target_endian, pc, map_state >> /\ UNCHANGED hostVars

GpuBeginComputePass ==
    /\ HeadIs("begin_compute_pass")
    /\ gpu_pass' = [open |-> TRUE, bind_group |-> <<>>, pipeline |-> "none"]
    /\ queue' = Tail(queue)
    /\ UNCHANGED << buffers, ran, oob_ran, branch, writes, dispatches, copies >>
    /\ hostFrame

GpuSetBindGroup ==
    /\ HeadIs("set_bind_group")
    /\ gpu_pass' = [gpu_pass EXCEPT !.bind_group = Head(queue).bind_group]
    /\ queue' = Tail(queue)
    /\ UNCHANGED << buffers, ran, oob_ran, branch, writes, dispatches, copies >>
    /\ hostFrame

GpuSetPipeline ==
    /\ HeadIs("set_pipeline")
    /\ gpu_pass' = [gpu_pass EXCEPT !.pipeline = Head(queue).entry_point]
    /\ queue' = Tail(queue)
    /\ UNCHANGED << buffers, ran, oob_ran, branch, writes, dispatches, copies >>
    /\ hostFrame

GpuEndComputePass ==
    /\ HeadIs("end_compute_pass")
    /\ gpu_pass' = [gpu_pass EXCEPT !.open = FALSE]
    /\ queue' = Tail(queue)
    /\ UNCHANGED << buffers, ran, oob_ran, branch, writes, dispatches, copies >>
    /\ hostFrame

\* The buffer main_cs's `storage` (descriptor_set = 0, binding = 0) is.
BoundBuffer == gpu_pass.bind_group[1].resource

\* The length of the slice `storage`.
SliceLen == Len(buffers[BoundBuffer]) \div 4

\* Invocations the dispatch at the head of the queue issues: x * y * z
\* workgroups of WORKGROUP_SIZE, with id.x = 0 .. Issued - 1 (y = z = 1).
Issued == Head(queue).x * Head(queue).y * Head(queue).z * WORKGROUP_SIZE

\* The issued ids within the slice, and how many are at or past its end.
InRangeIds == 0..((IF Issued < SliceLen THEN Issued ELSE SliceLen) - 1)

OutOfRangeCount == IF Issued > SliceLen THEN Issued - SliceLen ELSE 0

DispatchReady ==
    /\ HeadIs("dispatch")
    /\ gpu_pass.open
    /\ gpu_pass.pipeline = "main_cs"
    /\ gpu_pass.bind_group # <<>>

\* What one invocation's outcome o leaves: the bound buffer, and per element
\* it accessed the branch taken and one more store.
Invoked(o) ==
    /\ buffers' = [buffers EXCEPT ![BoundBuffer] = BytesOf(o.storage, target_endian)]
    /\ branch' = [i \in DOMAIN branch |->
                     IF i \in o.accessed THEN o.branch ELSE branch[i]]
    /\ writes' = [i \in DOMAIN writes |->
                     IF i \in o.accessed THEN writes[i] + 1 ELSE writes[i]]

\* One invocation whose id.x is within the slice, in any order.
GpuInvoke ==
    /\ DispatchReady
    /\ \E id \in InRangeIds \ ran :
          /\ \E o \in main_cs(id, SliceOf(buffers[BoundBuffer], target_endian)) :
                Invoked(o)
          /\ ran' = ran \cup {id}
    /\ UNCHANGED << queue, gpu_pass, oob_ran, dispatches, copies >>
    /\ hostFrame

\* One invocation whose id.x is at or past the slice's end. These change
\* nothing another invocation reads, so they are taken in ascending id order.
GpuInvokeOutOfRange ==
    /\ DispatchReady
    /\ oob_ran < OutOfRangeCount
    /\ \E o \in main_cs(SliceLen + oob_ran, SliceOf(buffers[BoundBuffer], target_endian)) :
          Invoked(o)
    /\ oob_ran' = oob_ran + 1
    /\ UNCHANGED << queue, gpu_pass, ran, dispatches, copies >>
    /\ hostFrame

\* The dispatch completes when every invocation it issued has run.
GpuDispatchComplete ==
    /\ DispatchReady
    /\ ran = InRangeIds
    /\ oob_ran = OutOfRangeCount
    /\ dispatches' = dispatches + 1
    /\ queue' = Tail(queue)
    /\ UNCHANGED << buffers, gpu_pass, ran, oob_ran, branch, writes, copies >>
    /\ hostFrame

\* size bytes of buffer a from offset i, written over buffer b from offset j.
CopyBytes(a, i, b, j, size) ==
    [k \in 1..Len(b) |-> IF k > j /\ k <= j + size THEN a[k - j + i] ELSE b[k]]

GpuCopyBufferToBuffer ==
    /\ HeadIs("copy_buffer_to_buffer")
    /\ LET c == Head(queue)
       IN buffers' = [buffers EXCEPT
                         ![c.destination] =
                             CopyBytes(buffers[c.source], c.source_offset,
                                       buffers[c.destination], c.destination_offset,
                                       c.copy_size)]
    /\ copies' = copies + 1
    /\ queue' = Tail(queue)
    /\ UNCHANGED << gpu_pass, ran, oob_ran, branch, writes, dispatches >>
    /\ hostFrame

\* The map callback runs once the work submitted before the request has
\* completed; the device reports the map's success or its failure.
GpuMapResolve ==
    /\ map_state = "map-requested"
    /\ queue = <<>>
    /\ \E outcome \in {"mapped", "failed"} : map_state' = outcome
    /\ UNCHANGED << input, target_endian, pc, buffers, queue >>
    /\ UNCHANGED hostVars
    /\ UNCHANGED gpuVars

Host ==
    \/ Compute
    \/ RequestAdapter
    \/ RequestDevice
    \/ CreatePipeline
    \/ CreateReadbackBuffer
    \/ CreateStorageBuffer
    \/ CreateBindGroup
    \/ CreateCommandEncoder
    \/ BeginComputePass
    \/ SetBindGroup
    \/ SetPipeline
    \/ Dispatch
    \/ EndComputePass
    \/ CopyBufferToBuffer
    \/ Submit
    \/ MapAsync
    \/ Poll
    \/ Await

Gpu ==
    \/ GpuBeginComputePass
    \/ GpuSetBindGroup
    \/ GpuSetPipeline
    \/ GpuInvoke
    \/ GpuInvokeOutOfRange
    \/ GpuDispatchComplete
    \/ GpuEndComputePass
    \/ GpuCopyBufferToBuffer
    \/ GpuMapResolve

Next == Host \/ Gpu

Spec == Init /\ [][Next]_vars

\* ----------------------------------------------------------------- claims

\* The number of floats the caller passed.
element_count == Len(input)

CeilDiv(a, b) == (a + b - 1) \div b

\* The commands recorded or submitted and not yet completed.
Recorded == {encoder[k] : k \in 1..Len(encoder)} \cup {queue[k] : k \in 1..Len(queue)}

\* C1: a successful call returns exactly as many values as it was given, and
\* the value at each position is the kernel transform (a zero to NaN, anything
\* else to 1/sqrt) of the input at that position.
C1_OrderPreservation ==
    result.kind = "ok" =>
        /\ Len(result.value) = Len(input)
        /\ \A i \in 1..Len(input) :
              result.value[i] \in main_cs_value(input[i]).stores

\* C1's case: a call on two different elements has returned its floats.
C1_Witness ==
    /\ result.kind = "ok"
    /\ Len(input) >= 2
    /\ input[1] # input[2]
    /\ result.value # input

\* --- exact comparison of a returned value with 1/sqrt(x)

\* A natural number of any size: its digits in base 2^15, least significant
\* first, with no leading zero digit.
Base == 2^15

RECURSIVE BigOf(_)
BigOf(n) == IF n = 0 THEN <<>> ELSE <<n % Base>> \o BigOf(n \div Base)

RECURSIVE BigAddC(_, _, _)
BigAddC(a, b, carry) ==
    IF a = <<>> /\ b = <<>> THEN (IF carry = 0 THEN <<>> ELSE <<carry>>)
    ELSE LET da == IF a = <<>> THEN 0 ELSE Head(a)
             db == IF b = <<>> THEN 0 ELSE Head(b)
             t == da + db + carry
         IN <<t % Base>> \o BigAddC(IF a = <<>> THEN a ELSE Tail(a),
                                    IF b = <<>> THEN b ELSE Tail(b), t \div Base)

BigAdd(a, b) == BigAddC(a, b, 0)

RECURSIVE BigMulSmall(_, _, _)
BigMulSmall(a, d, carry) ==
    IF a = <<>> THEN (IF carry = 0 THEN <<>> ELSE <<carry>>)
    ELSE LET t == Head(a) * d + carry
         IN <<t % Base>> \o BigMulSmall(Tail(a), d, t \div Base)

RECURSIVE BigMul(_, _)
BigMul(a, b) ==
    IF a = <<>> \/ b = <<>> THEN <<>>
    ELSE LET rest == BigMul(a, Tail(b))
             low == IF Head(b) = 0 THEN <<>> ELSE BigMulSmall(a, Head(b), 0)
         IN BigAdd(low, IF rest = <<>> THEN <<>> ELSE <<0>> \o rest)

\* 2^k
BigPow2(k) == [i \in 1..(k \div 15 + 1) |-> IF i = k \div 15 + 1 THEN 2^(k % 15) ELSE 0]

RECURSIVE BigLeqFrom(_, _, _)
BigLeqFrom(a, b, i) ==
    IF i = 0 THEN TRUE
    ELSE IF a[i] # b[i] THEN a[i] < b[i]
    ELSE BigLeqFrom(a, b, i - 1)

\* a <= b
BigLeq(a, b) ==
    IF Len(a) # Len(b) THEN Len(a) < Len(b) ELSE BigLeqFrom(a, b, Len(a))

\* The tests' tolerance 0.000001, as 1 / TolDenom.
TolDenom == 1000000

Max0(n) == IF n > 0 THEN n ELSE 0

\* A finite r >= 0 and the tolerance over a common denominator: with
\* r = Mr * 2^Er, a = max(-Er, 0) and b = max(Er, 0), r is scaled / den and
\* the tolerance is tol / den, for scaled = Mr * TolDenom * 2^b, tol = 2^a
\* and den = TolDenom * 2^a.
Scaled(r) ==
    LET nr == IF IsZero(r) THEN <<0, 0>> ELSE Normalize(r)
        tol == BigPow2(Max0(-nr[2]))
    IN [scaled |-> BigMul(BigMul(BigOf(nr[1]), BigOf(TolDenom)), BigPow2(Max0(nr[2]))),
        tol |-> tol,
        den |-> BigMul(BigOf(TolDenom), tol)]

\* |r - 1/sqrt(x)| <= 1/TolDenom for a positive finite x = Mx * 2^Ex and a
\* finite r >= 0, decided exactly: lo <= 1/sqrt(x) <= hi is
\* (lo <= 0 \/ lo^2 * x <= 1) /\ hi^2 * x >= 1, with lo, hi = r -+ tolerance.
WithinTolerance(x, r) ==
    LET nx == Normalize(x)
        s == Scaled(r)
        hi == BigAdd(s.scaled, s.tol)
        xn == BigMul(BigOf(nx[1]), BigPow2(Max0(nx[2])))
        xd == BigPow2(Max0(-nx[2]))
        one == BigMul(BigMul(s.den, s.den), xd)
        above == BigLeq(one, BigMul(BigMul(hi, hi), xn))
        \* lo = (scaled - tol) / den > 0 exactly when ~BigLeq(scaled, tol); then
        \* lo^2 * x <= 1 is scaled^2 * x + tol^2 * x <= 1 + 2 * scaled * tol * x
        below == \/ BigLeq(s.scaled, s.tol)
                 \/ BigLeq(BigAdd(BigMul(BigMul(s.scaled, s.scaled), xn),
                                  BigMul(BigMul(s.tol, s.tol), xn)),
                           BigAdd(one,
                                  BigMul(BigMul(BigMul(BigOf(2), s.scaled), s.tol), xn)))
    IN above /\ below

\* The returned value r is within the tolerance of 1/sqrt(x), for x > 0
\* (1/sqrt of +infinity being 0).
NearInverseSqrt(x, r) ==
    /\ ~IsNaN(r)
    /\ ~IsInf(r)
    /\ r.sign = 0 \/ IsZero(r)
    /\ IF IsInf(x) THEN BigLeq(Scaled(r).scaled, Scaled(r).tol)
       ELSE WithinTolerance(x, r)

\* x >= 1.0 and finite.
AtLeastOne(x) == x.sign = 0 /\ x.exp >= 127 /\ x.exp < 255

\* C2 as the specification states it: for every input x > 0 the value
\* returned at its position is within 1e-6 of 1/sqrt(x).
C2_RoundTripAllPositive ==
    result.kind = "ok" =>
        \A i \in 1..Len(input) :
            IsPositive(input[i]) => NearInverseSqrt(input[i], result.value[i])

\* C2, amended: for every finite input x >= 1 the value returned at its
\* position is within 1e-6 of 1/sqrt(x).
C2_RoundTripFromOne ==
    result.kind = "ok" =>
        \A i \in 1..Len(input) :
            AtLeastOne(input[i]) => NearInverseSqrt(input[i], result.value[i])

\* C2's case: a call has returned 1/sqrt of an x >= 1 that f32 cannot hold
\* exactly (25.0 gives 0.2).
C2_Witness ==
    /\ result.kind = "ok"
    /\ \E i \in 1..Len(input) :
          /\ input[i] = F32(0, 131, 4718592)
          /\ result.value[i] = F32(0, 124, 5033165)

\* C3: a zero input element comes back as NaN, by the kernel's zero branch,
\* and no non-zero element takes that branch.
C3_ZeroHandling ==
    result.kind = "ok" =>
        \A i \in 1..Len(input) :
            IF IsZero(input[i])
            THEN IsNaN(result.value[i]) /\ branch[i - 1] = "zero"
            ELSE branch[i - 1] = "else"

\* C3's case: a call whose input holds a zero and a non-zero has returned.
C3_Witness ==
    /\ result.kind = "ok"
    /\ \E i \in 1..Len(input) : IsZero(input[i]) /\ IsNaN(result.value[i])
    /\ \E i \in 1..Len(input) : ~IsZero(input[i])

\* C4 as the specification states it: every recorded dispatch has
\* ceil(element_count / 64) workgroups along X and 1 along Y and Z.
C4_DispatchCeil ==
    \A c \in Recorded :
        c.op = "dispatch" =>
            /\ c.x = CeilDiv(element_count, WORKGROUP_SIZE)
            /\ c.y = 1
            /\ c.z = 1

\* The workgroups that have issued an invocation at or past the slice's end.
OverrunGroups == {(SliceLen + k) \div WORKGROUP_SIZE : k \in 0..(oob_ran - 1)}

\* C5 as the specification states it: invocations with id.x at or past
\* element_count are issued only when element_count is no multiple of 64, and
\* then by the final dispatched workgroup only.
C5_OverrunOnlyInFinalGroup ==
    (HeadIs("dispatch") /\ oob_ran > 0) =>
        /\ element_count % WORKGROUP_SIZE # 0
        /\ OverrunGroups = {Head(queue).x - 1}

\* C6: once the copy has run, the dispatch has completed, and the readback
\* buffer holds what the storage buffer holds after the whole dispatch.
C6_CopyObservesDispatch ==
    copies > 0 =>
        /\ dispatches = 1
        /\ ~HeadIs("dispatch")
        /\ buffers.readback_buffer = buffers.storage_buffer

\* C6's case: the copy has run after a dispatch that changed the buffer.
C6_Witness ==
    /\ copies = 1
    /\ buffers.storage_buffer # src
    /\ buffers.readback_buffer = buffers.storage_buffer

\* The steps the readback buffer's state takes.
MapStep ==
    \/ map_state' = map_state
    \/ map_state = "unmapped" /\ map_state' = "map-requested"
    \/ map_state = "map-requested" /\ map_state' \in {"mapped", "failed"}
    \/ map_state = "mapped" /\ map_state' = "consumed"

\* What holds of the readback at every moment: a map is requested after the
\* submission only, it completes after the submitted dispatch and copy only,
\* the host is past its wait only once it has completed, and the bytes are
\* read in the mapped state only.
MapOrder ==
    /\ map_state # "unmapped" => submissions = 1
    /\ map_state \in {"mapped", "failed", "consumed"} =>
          queue = <<>> /\ dispatches = 1 /\ copies = 1
    /\ pc \in {"await", "done"} /\ result.kind # "panic" =>
          map_state \in {"mapped", "failed", "consumed"}
    /\ mapped_reads > 0 <=> map_state = "consumed"
    /\ result.kind = "ok" => map_state = "consumed"

\* C7: the readback goes unmapped -> map-requested -> mapped -> consumed, in
\* that order and under the conditions of MapOrder.
C7_ReadbackStateMachine == [][MapStep]_vars /\ []MapOrder

\* C7's case: the mapped bytes have been decoded.
C7_Witness == map_state = "consumed" /\ result.kind = "ok" /\ mapped_reads = 1

\* C8: when the map fails the call returns that error, reads no mapped range,
\* returns no floats and submits and maps once only.
C8_ReadbackFailed ==
    map_state = "failed" =>
        /\ mapped_reads = 0
        /\ submissions = 1
        /\ map_requests = 1
        /\ result.kind # "ok"
        /\ pc = "done" => result = [kind |-> "err", error |-> "BufferAsyncError"]

\* C8's case: the call has returned after a failed map.
C8_Witness == map_state = "failed" /\ pc = "done" /\ result.kind = "err"

\* C9 as the specification states it: however the call ends, the caller gets
\* a value: the floats or a typed error.
C9_TypedErrors == pc = "done" => result.kind \in {"ok", "err"}

\* C10: no step of the call changes the caller's input.
C10_InputPreserved == [][input' = input]_vars

\* C10's case: the call has returned floats that differ from the input, which
\* the storage buffer held.
C10_Witness ==
    /\ pc = "done"
    /\ result.kind = "ok"
    /\ result.value # input
    /\ buffers.storage_buffer # src

\* C11: the uploaded bytes are the 4-byte native-endian words of the input in
\* input order and nothing else (4 * n bytes, bytes 4i .. 4i + 3 encoding
\* input[i]), and decoding them in 4-byte chunks gives the input back.
C11_Serialization ==
    Past("compute") =>
        /\ Len(src) = 4 * Len(input)
        /\ \A k \in 1..Len(src) : src[k] \in 0..255
        /\ \A i \in 1..Len(input) :
              /\ SubSeq(src, 4 * i - 3, 4 * i) = to_ne_bytes(input[i], target_endian)
              /\ from_ne_bytes(SubSeq(src, 4 * i - 3, 4 * i), target_endian) = input[i]
        /\ chunks_exact_decode(src, target_endian) = input
        /\ Past("create_storage_buffer") /\ submissions = 0 =>
              buffers.storage_buffer = src

\* C11's case: <<0.0, 25.0>> has been uploaded on a little-endian target as
\* the bytes 00 00 00 00, 00 00 c8 41.
C11_Witness ==
    /\ target_endian = "little"
    /\ input = <<F32(0, 0, 0), F32(0, 131, 4718592)>>
    /\ buffers.storage_buffer = <<0, 0, 0, 0, 0, 0, 200, 65>>
    /\ submissions = 0

\* The operations of a command sequence.
Ops(cmds) == [k \in 1..Len(cmds) |-> cmds[k].op]

\* The command buffer of one call.
CommandOrder ==
    << "begin_compute_pass", "set_bind_group", "set_pipeline", "dispatch",
       "end_compute_pass", "copy_buffer_to_buffer" >>

\* C12: the commands are recorded in the order begin compute pass, set bind
\* group 0, set pipeline, dispatch, end compute pass, copy; the command buffer
\* is submitted once, whole, and nothing is recorded or submitted after that,
\* whether the call ends in floats or in an error.
C12_RecordedOnceInOrder ==
    /\ submissions <= 1
    /\ submissions = 0 =>
          /\ queue = <<>>
          /\ Len(encoder) <= Len(CommandOrder)
          /\ Ops(encoder) = SubSeq(CommandOrder, 1, Len(encoder))
    /\ pc = "submit" => Ops(encoder) = CommandOrder
    /\ submissions = 1 =>
          /\ encoder = <<>>
          /\ Len(queue) <= Len(CommandOrder)
          /\ Ops(queue) = SubSeq(CommandOrder, Len(CommandOrder) - Len(queue) + 1,
                                 Len(CommandOrder))
    /\ pc = "done" /\ result.kind \in {"ok", "err"} => submissions = 1

\* C12's case: a call that submitted its six commands has ended in an error.
C12_Witness ==
    /\ pc = "done"
    /\ result.kind = "err"
    /\ submissions = 1
    /\ dispatches = 1
    /\ copies = 1

\* The buffers bound to the kernel: by bind_group, by a recorded
\* set_bind_group, or by the device's pass.
BoundResources ==
    {bind_group[k].resource : k \in 1..Len(bind_group)}
    \cup {gpu_pass.bind_group[k].resource : k \in 1..Len(gpu_pass.bind_group)}
    \cup UNION {{c.bind_group[k].resource : k \in 1..Len(c.bind_group)} :
                c \in {d \in Recorded : d.op = "set_bind_group"}}

\* A step that changes the readback buffer's contents is its creation or the
\* one copy from the storage buffer, after the dispatch.
ReadbackStep ==
    buffers'.readback_buffer # buffers.readback_buffer =>
        \/ pc = "create_readback_buffer" /\ pc' # pc
        \/ /\ HeadIs("copy_buffer_to_buffer")
           /\ Head(queue).source = "storage_buffer"
           /\ dispatches = 1
           /\ copies = 0
           /\ copies' = 1
           /\ buffers'.readback_buffer = buffers.storage_buffer

\* C13: the readback (staging) buffer is never a resource of a bind group, so
\* no invocation writes it, and its contents change only by the one copy from
\* the storage buffer that follows the dispatch.
C13_StagingOnlyCopied ==
    /\ []("readback_buffer" \notin BoundResources)
    /\ [][ReadbackStep]_vars

\* C13's case: the copy has filled the readback buffer with transformed
\* bytes, the kernel having been bound to the storage buffer.
C13_Witness ==
    /\ copies = 1
    /\ BoundResources = {"storage_buffer"}
    /\ buffers.readback_buffer # [i \in 1..Len(src) |-> 0]
    /\ buffers.readback_buffer # src

\* C14: the storage buffer, the readback buffer and every recorded copy are
\* 4 * n bytes long, the copy from offset 0 to offset 0, so it covers both
\* buffers and stays inside them.
C14_FullExtentSizes ==
    /\ Past("create_readback_buffer") => Len(buffers.readback_buffer) = 4 * element_count
    /\ Past("create_storage_buffer") => Len(buffers.storage_buffer) = 4 * element_count
    /\ \A c \in Recorded :
          c.op = "copy_buffer_to_buffer" =>
              /\ c.copy_size = 4 * element_count
              /\ c.source_offset = 0
              /\ c.destination_offset = 0
              /\ c.source_offset + c.copy_size = Len(buffers[c.source])
              /\ c.destination_offset + c.copy_size = Len(buffers[c.destination])

\* C14's case: the 8-byte copy of a two-float call is recorded over two
\* 8-byte buffers.
C14_Witness ==
    /\ element_count = 2
    /\ \E c \in Recorded : c.op = "copy_buffer_to_buffer" /\ c.copy_size = 8
    /\ Len(buffers.storage_buffer) = 8
    /\ Len(buffers.readback_buffer) = 8

\* C15: whatever the order of the invocations, element i is loaded and stored
\* by the invocation with id.x = i and by no other: once when that invocation
\* has run, not at all before, and once each when the dispatch has completed.
C15_OneInvocationPerElement ==
    /\ \A i \in 0..(element_count - 1) :
          /\ writes[i] = IF i \in ran THEN 1 ELSE 0
          /\ branch[i] # "none" <=> i \in ran
    /\ ran \subseteq 0..(element_count - 1)
    /\ dispatches = 1 => ran = 0..(element_count - 1)

\* C15's case: of two elements the second has been transformed before the
\* first, with invocations past the end run in between.
C15_Witness ==
    /\ element_count = 2
    /\ ran = {1}
    /\ oob_ran > 0
    /\ writes[1] = 1
    /\ writes[0] = 0

\* The calls on up to MaxLen floats, each zero or not.
FairInit == Init /\ input \in SeqsOf(SmallFloats, MaxLen)

\* The call on a host that keeps running and a device that keeps executing
\* what is queued and resolving what is requested.
FairSpec == FairInit /\ [][Next]_vars /\ WF_vars(Host) /\ WF_vars(Gpu)

\* The call has returned Ok(floats) or Err(BufferAsyncError).
Returned == pc = "done" /\ result.kind \in {"ok", "err"}

\* The device has not finished: submitted commands are queued or the map
\* request is unresolved.
DevicePending == queue # <<>> \/ map_state = "map-requested"

\* C16: nothing cancels or times out the wait. On a device that keeps making
\* progress every call ends, and every call that submitted its work returns
\* the floats or an error; while the device has not completed the work and
\* resolved the map request, the host in device.poll takes no step.
C16_ReturnsIffDeviceCompletes ==
    /\ <>(pc = "done" /\ (submissions = 1 => Returned))
    /\ [](pc = "poll" /\ DevicePending => ~ENABLED Host)
    /\ [][pc = "poll" /\ pc' # pc => ~DevicePending]_vars

\* C16's case: the host waits in device.poll with the commands still queued
\* and the map request unresolved.
C16_Witness ==
    /\ pc = "poll"
    /\ submissions = 1
    /\ queue # <<>>
    /\ map_state = "map-requested"

\* ------------------------------------------------- two calls in flight

\* Two calls of compute at once, each a task of its own. Here every variable
\* of one call is a function of the call; buffers is the buffers the devices
\* have created (heap, by handle) with each call's two handles; writes is,
\* per call, the handles of the buffers the call or the work it submitted has
\* read or written. branch, map_requests and mapped_reads are not used.
Calls == {1, 2}

\* The longest input of a call in flight.
MaxInFlightLen == 1

\* A buffer handed out again from a pool of buffers of the same usage.
create_buffer_pooled(heap, usage) ==
    IF \E h \in 1..Len(heap) : heap[h].usage = usage
    THEN CHOOSE h \in 1..Len(heap) : heap[h].usage = usage
    ELSE Len(heap) + 1

\* device.create_buffer and create_buffer_init return a buffer that did not
\* exist before: the handle is one no buffer has.
create_buffer(heap, usage) == Len(heap) + 1

\* The heap with buffer b at handle h.
WithBuffer(heap, h, b) ==
    IF h > Len(heap) THEN Append(heap, b) ELSE [heap EXCEPT ![h] = b]

twoFixed == << input, target_endian, branch, map_requests, mapped_reads >>

twoHost == << src, bind_group, encoder, submissions, result >>

twoDevice == << queue, gpu_pass, ran, oob_ran, dispatches, copies, map_state >>

TwoInit ==
    /\ input \in [Calls -> SeqsOf(SmallFloats, MaxInFlightLen)]
    /\ target_endian \in {"little", "big"}
    /\ pc = [c \in Calls |-> "compute"]
    /\ src = [c \in Calls |-> <<>>]
    /\ buffers = [heap |-> <<>>,
                  readback_buffer |-> [c \in Calls |-> 0],
                  storage_buffer |-> [c \in Calls |-> 0]]
    /\ bind_group = [c \in Calls |-> <<>>]
    /\ encoder = [c \in Calls |-> <<>>]
    /\ queue = [c \in Calls |-> <<>>]
    /\ submissions = [c \in Calls |-> 0]
    /\ gpu_pass = [c \in Calls |-> [open |-> FALSE, bind_group |-> <<>>, pipeline |-> "none"]]
    /\ ran = [c \in Calls |-> {}]
    /\ oob_ran = [c \in Calls |-> 0]
    /\ branch = <<>>
    /\ writes = [c \in Calls |-> {}]
    /\ dispatches = [c \in Calls |-> 0]
    /\ copies = [c \in Calls |-> 0]
    /\ map_state = [c \in Calls |-> "unmapped"]
    /\ map_requests = 0
    /\ mapped_reads = 0
    /\ result = [c \in Calls |-> NoResult]

CallAt(c, l) == pc[c] = l /\ pc' = [pc EXCEPT ![c] = NextPc(l)]

\* Call c has read or written the buffers of handles hs.
Touch(c, hs) == writes' = [writes EXCEPT ![c] = @ \cup hs]

CallCompute(c) ==
    /\ CallAt(c, "compute")
    /\ src' = [src EXCEPT ![c] = flat_map_to_ne_bytes(input[c], target_endian)]
    /\ UNCHANGED << bind_group, encoder, submissions, result, buffers, writes >>
    /\ UNCHANGED twoFixed
    /\ UNCHANGED twoDevice

\* init_device, called by every call for an adapter, a device and a queue of
\* its own: either expect may panic.
CallInitDevice(c) ==
    /\ \E l \in {"request_adapter", "request_device"} :
          /\ pc[c] = l
          /\ \E ok \in BOOLEAN :
                IF ok
                THEN pc' = [pc EXCEPT ![c] = NextPc(l)] /\ result' = result
                ELSE /\ pc' = [pc EXCEPT ![c] = "done"]
                     /\ result' = [result EXCEPT ![c] =
                           [kind |-> "panic",
                            msg |-> IF l = "request_adapter"
                                    THEN "Failed to find an appropriate adapter"
                                    ELSE "Failed to create device"]]
    /\ UNCHANGED << src, bind_group, encoder, submissions, buffers, writes >>
    /\ UNCHANGED twoFixed
    /\ UNCHANGED twoDevice

\* The statements that create the pipeline and the command encoder.
CallCreatePipelineOrEncoder(c) ==
    /\ \E l \in {"create_pipeline", "create_command_encoder"} : CallAt(c, l)
    /\ UNCHANGED << buffers, writes >>
    /\ UNCHANGED twoHost
    /\ UNCHANGED twoFixed
    /\ UNCHANGED twoDevice

CallCreateReadbackBuffer(c) ==
    /\ CallAt(c, "create_readback_buffer")
    /\ LET h == create_buffer(buffers.heap, "readback")
       IN /\ buffers' = [buffers EXCEPT
                            !.heap = WithBuffer(@, h, [usage |-> "readback",
                                                       bytes |-> [i \in 1..Len(src[c]) |-> 0]]),
                            !.readback_buffer[c] = h]
          /\ Touch(c, {h})
    /\ UNCHANGED twoHost
    /\ UNCHANGED twoFixed
    /\ UNCHANGED twoDevice

CallCreateStorageBuffer(c) ==
    /\ CallAt(c, "create_storage_buffer")
    /\ LET h == create_buffer(buffers.heap, "storage")
       IN /\ buffers' = [buffers EXCEPT
                            !.heap = WithBuffer(@, h, [usage |-> "storage", bytes |-> src[c]]),
                            !.storage_buffer[c] = h]
          /\ Touch(c, {h})
    /\ UNCHANGED twoHost
    /\ UNCHANGED twoFixed
    /\ UNCHANGED twoDevice

CallCreateBindGroup(c) ==
    /\ CallAt(c, "create_bind_group")
    /\ bind_group' = [bind_group EXCEPT ![c] =
                         << [binding |-> 0, resource |-> buffers.storage_buffer[c]] >>]
    /\ UNCHANGED << src, encoder, submissions, result, buffers, writes >>
    /\ UNCHANGED twoFixed
    /\ UNCHANGED twoDevice

\* The command statement l of call c records.
CallCommand(c, l) ==
    CASE l = "set_bind_group" ->
            [op |-> l, index |-> 0, bind_group |-> bind_group[c]]
      [] l = "set_pipeline" -> [op |-> l, entry_point |-> "main_cs"]
      [] l = "dispatch" -> [op |-> l, x |-> dispatch_x(Len(src[c])), y |-> 1, z |-> 1]
      [] l = "copy_buffer_to_buffer" ->
            [op |-> l,
             source |-> buffers.storage_buffer[c], source_offset |-> 0,
             destination |-> buffers.readback_buffer[c], destination_offset |-> 0,
             copy_size |-> Len(src[c])]
      [] OTHER -> [op |-> l]

CallRecord(c) ==
    /\ \E l \in {CommandOrder[k] : k \in 1..Len(CommandOrder)} :
          /\ CallAt(c, l)
          /\ encoder' = [encoder EXCEPT ![c] = Append(@, CallCommand(c, l))]
    /\ UNCHANGED << src, bind_group, submissions, result, buffers, writes >>
    /\ UNCHANGED twoFixed
    /\ UNCHANGED twoDevice

CallSubmit(c) ==
    /\ CallAt(c, "submit")
    /\ queue' = [queue EXCEPT ![c] = @ \o encoder[c]]
    /\ encoder' = [encoder EXCEPT ![c] = <<>>]
    /\ submissions' = [submissions EXCEPT ![c] = @ + 1]
    /\ UNCHANGED << src, bind_group, result, buffers, writes >>
    /\ UNCHANGED << gpu_pass, ran, oob_ran, dispatches, copies, map_state >>
    /\ UNCHANGED twoFixed

CallMapAsync(c) ==
    /\ CallAt(c, "map_async")
    /\ map_state' = [map_state EXCEPT ![c] = "map-requested"]
    /\ UNCHANGED << queue, gpu_pass, ran, oob_ran, dispatches, copies >>
    /\ UNCHANGED << buffers, writes >>
    /\ UNCHANGED twoHost
    /\ UNCHANGED twoFixed

\* Each call polls its own device.
CallPoll(c) ==
    /\ CallAt(c, "poll")
    /\ queue[c] = <<>>
    /\ map_state[c] # "map-requested"
    /\ UNCHANGED << buffers, writes >>
    /\ UNCHANGED twoHost
    /\ UNCHANGED twoFixed
    /\ UNCHANGED twoDevice

CallAwait(c) ==
    /\ CallAt(c, "await")
    /\ map_state[c] \in {"mapped", "failed"}
    /\ IF map_state[c] = "mapped"
       THEN /\ result' = [result EXCEPT ![c] =
                  [kind |-> "ok",
                   value |-> chunks_exact_decode(
                                 buffers.heap[buffers.readback_buffer[c]].bytes,
                                 target_endian)]]
            /\ map_state' = [map_state EXCEPT ![c] = "consumed"]
            /\ Touch(c, {buffers.readback_buffer[c]})
       ELSE /\ result' = [result EXCEPT ![c] = [kind |-> "err", error |-> "BufferAsyncError"]]
            /\ UNCHANGED << map_state, writes >>
    /\ UNCHANGED << src, bind_group, encoder, submissions, buffers >>
    /\ UNCHANGED << queue, gpu_pass, ran, oob_ran, dispatches, copies >>
    /\ UNCHANGED twoFixed

\* The device of call c.
CallHeadIs(c, ops) == queue[c] # <<>> /\ Head(queue[c]).op \in ops

\* The commands of the compute pass other than the dispatch.
CallGpuPass(c) ==
    /\ CallHeadIs(c, {"begin_compute_pass", "set_bind_group", "set_pipeline",
                      "end_compute_pass"})
    /\ LET cmd == Head(queue[c])
       IN gpu_pass' = [gpu_pass EXCEPT ![c] =
             CASE cmd.op = "begin_compute_pass" ->
                     [open |-> TRUE, bind_group |-> <<>>, pipeline |-> "none"]
               [] cmd.op = "set_bind_group" -> [@ EXCEPT !.bind_group = cmd.bind_group]
               [] cmd.op = "set_pipeline" -> [@ EXCEPT !.pipeline = cmd.entry_point]
               [] OTHER -> [@ EXCEPT !.open = FALSE]]
    /\ queue' = [queue EXCEPT ![c] = Tail(@)]
    /\ UNCHANGED << ran, oob_ran, dispatches, copies, map_state >>
    /\ UNCHANGED << pc, buffers, writes >>
    /\ UNCHANGED twoHost
    /\ UNCHANGED twoFixed

CallBound(c) == gpu_pass[c].bind_group[1].resource

CallSlice(c) == SliceOf(buffers.heap[CallBound(c)].bytes, target_endian)

CallIssued(c) == Head(queue[c]).x * Head(queue[c]).y * Head(queue[c]).z * WORKGROUP_SIZE

CallDispatchReady(c) ==
    /\ CallHeadIs(c, {"dispatch"})
    /\ gpu_pass[c].open
    /\ gpu_pass[c].pipeline = "main_cs"
    /\ gpu_pass[c].bind_group # <<>>

\* What the outcome o of an invocation of call c leaves.
CallInvoked(c, o) ==
    /\ buffers' = [buffers EXCEPT
                      !.heap[CallBound(c)].bytes = BytesOf(o.storage, target_endian)]
    /\ IF o.accessed = {} THEN writes' = writes ELSE Touch(c, {CallBound(c)})

\* One invocation of call c's dispatch whose id.x is within the slice.
CallGpuInvoke(c) ==
    /\ CallDispatchReady(c)
    /\ \E id \in 0..(Len(CallSlice(c)) - 1) :
          /\ id < CallIssued(c)
          /\ id \notin ran[c]
          /\ \E o \in main_cs(id, CallSlice(c)) : CallInvoked(c, o)
          /\ ran' = [ran EXCEPT ![c] = @ \cup {id}]
    /\ UNCHANGED << queue, gpu_pass, oob_ran, dispatches, copies, map_state >>
    /\ UNCHANGED pc
    /\ UNCHANGED twoHost
    /\ UNCHANGED twoFixed

\* The invocations at or past the slice's end, which all do what the first
\* of them does, taken together.
CallGpuInvokeOutOfRange(c) ==
    /\ CallDispatchReady(c)
    /\ CallIssued(c) > Len(CallSlice(c))
    /\ oob_ran[c] = 0
    /\ \E o \in main_cs(Len(CallSlice(c)), CallSlice(c)) : CallInvoked(c, o)
    /\ oob_ran' = [oob_ran EXCEPT ![c] = CallIssued(c) - Len(CallSlice(c))]
    /\ UNCHANGED << queue, gpu_pass, ran, dispatches, copies, map_state >>
    /\ UNCHANGED pc
    /\ UNCHANGED twoHost
    /\ UNCHANGED twoFixed

CallGpuDispatchComplete(c) ==
    /\ CallDispatchReady(c)
    /\ \A id \in 0..(Len(CallSlice(c)) - 1) : id < CallIssued(c) => id \in ran[c]
    /\ CallIssued(c) > Len(CallSlice(c)) => oob_ran[c] > 0
    /\ dispatches' = [dispatches EXCEPT ![c] = @ + 1]
    /\ queue' = [queue EXCEPT ![c] = Tail(@)]
    /\ UNCHANGED << gpu_pass, ran, oob_ran, copies, map_state >>
    /\ UNCHANGED << pc, buffers, writes >>
    /\ UNCHANGED twoHost
    /\ UNCHANGED twoFixed

CallGpuCopyBufferToBuffer(c) ==
    /\ CallHeadIs(c, {"copy_buffer_to_buffer"})
    /\ LET cmd == Head(queue[c])
       IN /\ buffers' = [buffers EXCEPT
                            !.heap[cmd.destination].bytes =
                                CopyBytes(buffers.heap[cmd.source].bytes, cmd.source_offset,
                                          @, cmd.destination_offset, cmd.copy_size)]
          /\ Touch(c, {cmd.source, cmd.destination})
    /\ copies' = [copies EXCEPT ![c] = @ + 1]
    /\ queue' = [queue EXCEPT ![c] = Tail(@)]
    /\ UNCHANGED << gpu_pass, ran, oob_ran, dispatches, map_state >>
    /\ UNCHANGED pc
    /\ UNCHANGED twoHost
    /\ UNCHANGED twoFixed

CallGpuMapResolve(c) ==
    /\ map_state[c] = "map-requested"
    /\ queue[c] = <<>>
    /\ \E outcome \in {"mapped", "failed"} :
          map_state' = [map_state EXCEPT ![c] = outcome]
    /\ UNCHANGED << queue, gpu_pass, ran, oob_ran, dispatches, copies >>
    /\ UNCHANGED << pc, buffers, writes >>
    /\ UNCHANGED twoHost
    /\ UNCHANGED twoFixed

TwoNext ==
    \E c \in Calls :
       \/ CallCompute(c)
       \/ CallInitDevice(c)
       \/ CallCreatePipelineOrEncoder(c)
       \/ CallCreateReadbackBuffer(c)
       \/ CallCreateStorageBuffer(c)
       \/ CallCreateBindGroup(c)
       \/ CallRecord(c)
       \/ CallSubmit(c)
       \/ CallMapAsync(c)
       \/ CallPoll(c)
       \/ CallAwait(c)
       \/ CallGpuPass(c)
       \/ CallGpuInvoke(c)
       \/ CallGpuInvokeOutOfRange(c)
       \/ CallGpuDispatchComplete(c)
       \/ CallGpuCopyBufferToBuffer(c)
       \/ CallGpuMapResolve(c)

TwoSpec == TwoInit /\ [][TwoNext]_vars

\* The handles call c holds.
HandlesOf(c) == {buffers.readback_buffer[c], buffers.storage_buffer[c]} \ {0}

\* r is what a call on xs alone returns: the panic of a failed init_device,
\* the map's error, or one value per element, each the kernel's transform of
\* the element at its position (C1).
ReturnedAlone(xs, r) ==
    \/ r.kind \in {"panic", "err"}
    \/ /\ r.kind = "ok"
       /\ Len(r.value) = Len(xs)
       /\ \A i \in 1..Len(xs) : r.value[i] \in main_cs_value(xs[i]).stores

\* C17: two calls in flight hold different buffers and different bind-group
\* resources, no buffer is read or written by both (by the host or by the
\* work either submitted), and a call that has ended has the result it has
\* when run alone.
C17_CallsShareNothing ==
    \A c, d \in Calls :
       /\ c # d =>
             /\ HandlesOf(c) \cap HandlesOf(d) = {}
             /\ writes[c] \cap writes[d] = {}
             /\ \A k \in 1..Len(bind_group[c]) :
                   bind_group[c][k].resource \notin HandlesOf(d)
       /\ writes[c] \subseteq HandlesOf(c)
       /\ pc[c] = "done" => ReturnedAlone(input[c], result[c])

\* C17's case: the first call, on an input other than the second's, has
\* returned its floats while the second's device has completed its dispatch
\* and still holds its copy, each having used its own two buffers.
C17_Witness ==
    /\ result[1].kind = "ok"
    /\ Len(input[1]) > 0
    /\ Len(input[2]) > 0
    /\ input[1] # input[2]
    /\ dispatches[2] = 1
    /\ queue[2] # <<>>
    /\ Cardinality(writes[1]) = 2
    /\ Cardinality(writes[2]) = 2

====
